---- MODULE Spec2Model ----
(***************************************************************************)
(* Model of the Closer registry of github.com/ilKhr/closer.                *)
(*                                                                         *)
(* Two packages carry the type: the root package (closer.go) and the       *)
(* sub-package closer/ (closer/closer.go).  Add, CloseOne and Size are     *)
(* textually the same in both; Close differs in how it runs the callbacks  *)
(* and collects their errors.  The variable pkg says which package the     *)
(* program was built against; it never changes.                            *)
(*                                                                         *)
(* Slices are 1-based sequences here: Go's c.funcs[k] is funcs[k+1].       *)
(* A Go string is a sequence of tokens; the empty sequence is the nil      *)
(* error.                                                                  *)
(***************************************************************************)
EXTENDS Integers, Sequences, FiniteSets, TLC

\* Bounds of the model.
NThreads == 2      \* concurrent callers of the registry
MaxFuncs == 3      \* registrations over the registry's lifetime
MaxOps   == 4      \* calls of Add/Close/CloseOne/Size over the lifetime

Threads  == 1..NThreads
FuncIds  == 1..MaxFuncs     \* callbacks, named by the number of their registration
NoThread == 0
Pkgs     == {"root", "closer"}

VARIABLES
    pkg,          \* which package's Closer this is
    mu,           \* c.mu: the holder, or NoThread
    funcs,        \* c.funcs
    size,         \* c.size
    i,            \* c.i
    pc,           \* per caller: position in the operation it is running
    f,            \* per caller: the Func argument (Add) or the callee (CloseOne)
    prev,         \* per caller: CloseOne's local prev
    ret,          \* per caller: the error its last Close/CloseOne returned
    sz,           \* per caller: the value its last Size returned
    snap,         \* per caller: Close's range expression c.funcs[c.i:]
    j,            \* per caller: Close's loop position in snap
    gor,          \* per caller: the goroutines execF started (root package)
    wg,           \* per caller: Close's WaitGroup counter
    fErrChan,     \* per caller: Close's shared error channel (sub-package)
    length,       \* per caller: Close's local length (sub-package)
    seen,         \* per caller: c.size at its last synchronisation with c.mu
    crashed,      \* the process panicked
    reentry,      \* the call into the registry a running callback waits for
    nops,         \* calls started so far
    \* history variables
    registered,   \* the Add arguments, in the order Add took the lock
    nAdded,       \* Add calls that have returned
    calledCount,  \* per callback: how often it was invoked
    outcome,      \* per callback: what its invocation returned
    finished,     \* callbacks run by the last Close, in order of completion
    drained,      \* a Close passed its guard and returned, and no Add began since
    bulkClosed,   \* some Close passed its guard
    nres,         \* successful CloseOne reservations so far
    ticket        \* per caller: the number of the reservation it holds

vars == <<pkg, mu, funcs, size, i, pc, f, prev, ret, sz, snap, j, gor, wg,
          fErrChan, length, seen, crashed, reentry, nops, registered, nAdded,
          calledCount, outcome, finished, drained, bulkClosed, nres, ticket>>

histVars == <<registered, nAdded, calledCount, outcome, finished, drained,
              bulkClosed, nres, ticket>>

----------------------------------------------------------------------------
\* Strings and errors.

Nil == <<>>

ErrAllServicesClosed == <<"all services closed">>

\* The message of the error callback g returns when it fails.
ErrText(g) == <<"error closing service " \o ToString(g)>>

RECURSIVE Join(_, _)
\* strings.Join(elems, sep)
Join(elems, sep) ==
    IF elems = <<>> THEN <<>>
    ELSE IF Len(elems) = 1 THEN elems[1]
    ELSE elems[1] \o sep \o Join(Tail(elems), sep)

\* fmt.Errorf("%s: %v", op, msg)
Errorf(op, msg) == <<op, ": ">> \o msg

\* ctx.Err() of a cancelled context: the error context.Canceled.
Canceled == <<"context canceled">>

\* What a callback may return: nil, its own error, or the error of the context
\* it was handed.  The registry passes ctx through and never looks at it.
Results(g) == {Nil, ErrText(g), Canceled}

\* Every value some callback may return.
Returnable == UNION {Results(g) : g \in FuncIds}

RECURSIVE GrowCap(_)
\* Capacity of the backing array of a slice grown by n single appends.
GrowCap(n) ==
    IF n = 0 THEN 0
    ELSE LET c == GrowCap(n - 1) IN
         IF n <= c THEN c ELSE IF c = 0 THEN 1 ELSE 2 * c

\* The append that made the slice n long moved it to a new backing array.
Reallocated(n) == GrowCap(n - 1) < n

Range(s) == {s[k] : k \in 1..Len(s)}

\* A callback that has not returned yet.
NotRun == <<"not run">>

\* What a read of c.funcs[prev] made without c.mu can find: the Func stored
\* there, or nil when an append moved the slice to a new backing array after
\* the reader last synchronised and the copy is not visible to the reader yet.
FuncReads(t) ==
    {"func"} \cup
    (IF \E n \in (seen[t] + 1)..Len(funcs) : Reallocated(n) THEN {"nil"} ELSE {})

\* What a read of c.size made without c.mu can find: any value written since
\* the reader last synchronised.
SizeReads(t) == seen[t]..size

\* No callback is waiting for a call it made into the registry.
NoCall == [op |-> "none", cb |-> 0, at |-> 0]

----------------------------------------------------------------------------
\* var cl Closer

Init ==
    /\ pkg \in Pkgs
    /\ mu = NoThread
    /\ funcs = <<>>
    /\ size = 0
    /\ i = 0
    /\ pc = [t \in Threads |-> "idle"]
    /\ f = [t \in Threads |-> 0]
    /\ prev = [t \in Threads |-> 0]
    /\ ret = [t \in Threads |-> Nil]
    /\ sz = [t \in Threads |-> 0]
    /\ snap = [t \in Threads |-> <<>>]
    /\ j = [t \in Threads |-> 0]
    /\ gor = [t \in Threads |-> <<>>]
    /\ wg = [t \in Threads |-> 0]
    /\ fErrChan = [t \in Threads |-> <<>>]
    /\ length = [t \in Threads |-> 0]
    /\ seen = [t \in Threads |-> 0]
    /\ crashed = FALSE
    /\ reentry = NoCall
    /\ nops = 0
    /\ registered = <<>>
    /\ nAdded = 0
    /\ calledCount = [g \in FuncIds |-> 0]
    /\ outcome = [g \in FuncIds |-> NotRun]
    /\ finished = <<>>
    /\ drained = FALSE
    /\ bulkClosed = FALSE
    /\ nres = 0
    /\ ticket = [t \in Threads |-> 0]

\* A sync.Mutex that lets every Lock through.
UnlockedAlways == TRUE

\* c.mu.Lock() returns only when nobody holds c.mu, its caller included.
Unlocked == mu = NoThread

\* A caller that is between operations may start one.
CanCall(t) == ~crashed /\ pc[t] = "idle" /\ nops < MaxOps

closeLocals == <<snap, j, gor, wg, fErrChan, length>>

----------------------------------------------------------------------------
\* Add

\* c.mu.Lock()
AddLock(t, g) ==
    /\ CanCall(t)
    /\ Unlocked
    /\ g = Len(registered) + 1
    /\ mu' = t
    /\ f' = [f EXCEPT ![t] = g]
    /\ pc' = [pc EXCEPT ![t] = "add_append"]
    /\ seen' = [seen EXCEPT ![t] = size]
    /\ nops' = nops + 1
    /\ registered' = Append(registered, g)
    /\ drained' = FALSE
    /\ UNCHANGED <<pkg, reentry, funcs, size, i, prev, ret, sz, closeLocals, crashed,
                   nAdded, calledCount, outcome, finished, bulkClosed, nres,
                   ticket>>

\* c.funcs = append(c.funcs, f)
AddAppend(t) ==
    /\ ~crashed
    /\ pc[t] = "add_append"
    /\ funcs' = Append(funcs, f[t])
    /\ pc' = [pc EXCEPT ![t] = "add_size"]
    /\ UNCHANGED <<pkg, reentry, mu, size, i, f, prev, ret, sz, closeLocals, seen,
                   crashed, nops, histVars>>

\* c.size++
AddSize(t) ==
    /\ ~crashed
    /\ pc[t] = "add_size"
    /\ size' = size + 1
    /\ seen' = [seen EXCEPT ![t] = size + 1]
    /\ pc' = [pc EXCEPT ![t] = "add_unlock"]
    /\ UNCHANGED <<pkg, reentry, mu, funcs, i, f, prev, ret, sz, closeLocals, crashed,
                   nops, histVars>>

\* the deferred c.mu.Unlock(), and the return
AddUnlock(t) ==
    /\ ~crashed
    /\ pc[t] = "add_unlock"
    /\ mu' = NoThread
    /\ pc' = [pc EXCEPT ![t] = "idle"]
    /\ f' = [f EXCEPT ![t] = 0]
    /\ nAdded' = nAdded + 1
    /\ UNCHANGED <<pkg, reentry, funcs, size, i, prev, ret, sz, closeLocals, seen,
                   crashed, nops, registered, calledCount, outcome, finished,
                   drained, bulkClosed, nres, ticket>>

----------------------------------------------------------------------------
\* CloseOne

\* c.mu.Lock(); prev := c.i
CloseOneLock(t) ==
    /\ CanCall(t)
    /\ Unlocked
    /\ mu' = t
    /\ prev' = [prev EXCEPT ![t] = i]
    /\ pc' = [pc EXCEPT ![t] = "one_guard"]
    /\ seen' = [seen EXCEPT ![t] = size]
    /\ nops' = nops + 1
    /\ UNCHANGED <<pkg, reentry, funcs, size, i, f, ret, sz, closeLocals, crashed,
                   histVars>>

\* A guard that never turns a call away.
AllClosedNever(n, total) == FALSE

\* A guard that lets a call through when nothing is left.
AllClosedStrict(n, total) == n > total

\* c.i >= c.size: the guard of Close and of CloseOne
AllClosed(n, total) == n >= total

\* A CloseOne that calls the newest function.
CalleeLast(fs, p) == fs[Len(fs)]

\* c.funcs[prev], the function CloseOne calls
Callee(fs, p) == fs[p + 1]

\* A CloseOne that forgets to advance the index.
NextSlotStuck(n) == n

\* A CloseOne that passes over a slot.
NextSlotSkips(n) == n + 2

\* c.i++: the index after CloseOne reserved slot n.
NextSlot(n) == n + 1

\* A CloseOne that keeps c.mu until its callback has returned.
HeldThroughCall(t) == t

\* defer c.mu.Unlock() in CloseOne's closure: the holder of c.mu once the
\* closure has returned, before c.funcs[prev] is called
Released(t) == NoThread

\* the closure: the guard, c.i++, the deferred c.mu.Unlock()
CloseOneReserve(t) ==
    /\ ~crashed
    /\ pc[t] = "one_guard"
    /\ mu' = Released(t)
    /\ IF AllClosed(i, size)
       THEN /\ ret' = [ret EXCEPT ![t] =
                         Errorf("closer.CloseOne", ErrAllServicesClosed)]
            /\ pc' = [pc EXCEPT ![t] = "idle"]
            /\ prev' = [prev EXCEPT ![t] = 0]
            /\ UNCHANGED <<i, nres, ticket>>
       ELSE /\ i' = NextSlot(i)
            /\ pc' = [pc EXCEPT ![t] = "one_call"]
            /\ nres' = nres + 1
            /\ ticket' = [ticket EXCEPT ![t] = nres + 1]
            /\ UNCHANGED <<ret, prev>>
    /\ UNCHANGED <<pkg, reentry, funcs, size, f, sz, closeLocals, seen, crashed,
                   nops, registered, nAdded, calledCount, outcome, finished,
                   drained, bulkClosed>>

\* c.funcs[prev](ctx): the read of c.funcs[prev], after the unlock, and the call
CloseOneCall(t) ==
    /\ ~crashed
    /\ pc[t] = "one_call"
    /\ \E o \in FuncReads(t) :
         IF o = "nil"
         THEN /\ crashed' = TRUE
              /\ UNCHANGED <<f, pc, calledCount>>
         ELSE /\ f' = [f EXCEPT ![t] = Callee(funcs, prev[t])]
              /\ pc' = [pc EXCEPT ![t] = "one_infunc"]
              /\ calledCount' = [calledCount EXCEPT ![Callee(funcs, prev[t])] = @ + 1]
              /\ UNCHANGED crashed
    /\ UNCHANGED <<pkg, reentry, mu, funcs, size, i, prev, ret, sz, closeLocals, seen,
                   nops, registered, nAdded, outcome, finished, drained,
                   bulkClosed, nres, ticket>>

\* A CloseOne that wraps the callback's error the way Close does.
CloseOneResultWrapped(r) ==
    IF r = Nil THEN Nil ELSE Errorf("closer.CloseOne", r)

\* return c.funcs[prev](ctx): CloseOne's result is the callback's result
CloseOneResult(r) == r

\* the callback returns r, and CloseOne returns it
CloseOneRet(t, r) ==
    /\ ~crashed
    /\ pc[t] = "one_infunc"
    /\ r \in Results(f[t])
    /\ ret' = [ret EXCEPT ![t] = CloseOneResult(r)]
    /\ pc' = [pc EXCEPT ![t] = "idle"]
    /\ f' = [f EXCEPT ![t] = 0]
    /\ prev' = [prev EXCEPT ![t] = 0]
    /\ ticket' = [ticket EXCEPT ![t] = 0]
    /\ outcome' = [outcome EXCEPT ![f[t]] = r]
    /\ UNCHANGED <<pkg, reentry, mu, funcs, size, i, sz, closeLocals, seen,
                   crashed, nops, registered, nAdded, calledCount, finished,
                   drained, bulkClosed, nres>>

----------------------------------------------------------------------------
\* Size

\* return c.size
Size(t) ==
    /\ CanCall(t)
    /\ \E v \in SizeReads(t) : sz' = [sz EXCEPT ![t] = v]
    /\ nops' = nops + 1
    /\ UNCHANGED <<pkg, reentry, mu, funcs, size, i, pc, f, prev, ret, closeLocals,
                   seen, crashed, histVars>>

----------------------------------------------------------------------------
\* Close

\* c.mu.Lock()
CloseLock(t) ==
    /\ CanCall(t)
    /\ Unlocked
    /\ mu' = t
    /\ pc' = [pc EXCEPT ![t] = "close_guard"]
    /\ seen' = [seen EXCEPT ![t] = size]
    /\ nops' = nops + 1
    /\ UNCHANGED <<pkg, reentry, funcs, size, i, f, prev, ret, sz, closeLocals, crashed,
                   histVars>>

\* A Close that ranges over c.funcs from its start.
SnapshotAll(fs, n) == fs

\* A range that leaves the newest function out.
SnapshotShort(fs, n) == SubSeq(fs, n + 1, Len(fs) - 1)

\* c.funcs[c.i:], the slice Close ranges over, when c.funcs is fs and c.i is n
Snapshot(fs, n) == SubSeq(fs, n + 1, Len(fs))

\* the guard; when it passes, the locals are made and the range expression
\* is evaluated
CloseGuard(t) ==
    /\ ~crashed
    /\ pc[t] = "close_guard"
    /\ IF AllClosed(i, size)
       THEN /\ ret' = [ret EXCEPT ![t] =
                         Errorf("closer.Close", ErrAllServicesClosed)]
            /\ pc' = [pc EXCEPT ![t] = "idle"]
            /\ mu' = NoThread
            /\ UNCHANGED <<closeLocals, finished, bulkClosed>>
       ELSE /\ snap' = [snap EXCEPT ![t] = Snapshot(funcs, i)]
            /\ j' = [j EXCEPT ![t] = 0]
            /\ gor' = [gor EXCEPT ![t] = <<>>]
            /\ wg' = [wg EXCEPT ![t] = 0]
            /\ fErrChan' = [fErrChan EXCEPT ![t] = <<>>]
            /\ length' = [length EXCEPT ![t] = IF pkg = "closer" THEN size - i ELSE 0]
            /\ pc' = [pc EXCEPT ![t] = "close_loop"]
            /\ finished' = <<>>
            /\ bulkClosed' = TRUE
            /\ UNCHANGED <<ret, mu>>
    /\ UNCHANGED <<pkg, reentry, funcs, size, i, f, prev, sz, seen, crashed, nops,
                   registered, nAdded, calledCount, outcome, drained, nres,
                   ticket>>

\* Root package, one turn of the loop: wg.Add(1), and execF makes the channel
\* and starts the goroutine.
CloseSpawn(t) ==
    /\ ~crashed
    /\ pkg = "root"
    /\ pc[t] = "close_loop"
    /\ j[t] < Len(snap[t])
    /\ wg' = [wg EXCEPT ![t] = @ + 1]
    /\ gor' = [gor EXCEPT ![t] =
                 Append(@, [fn |-> snap[t][j[t] + 1], st |-> "ready",
                            ch |-> <<>>, closed |-> FALSE])]
    /\ j' = [j EXCEPT ![t] = @ + 1]
    /\ UNCHANGED <<pkg, reentry, mu, funcs, size, i, pc, f, prev, ret, sz, snap,
                   fErrChan, length, seen, crashed, nops, histVars>>

\* Root package, execF's goroutine n calls f(ctx).
GoCall(t, n) ==
    /\ ~crashed
    /\ n \in 1..Len(gor[t])
    /\ gor[t][n].st = "ready"
    /\ gor' = [gor EXCEPT ![t][n].st = "running"]
    /\ calledCount' = [calledCount EXCEPT ![gor[t][n].fn] = @ + 1]
    /\ UNCHANGED <<pkg, reentry, mu, funcs, size, i, pc, f, prev, ret, sz, snap, j, wg,
                   fErrChan, length, seen, crashed, nops, registered, nAdded,
                   outcome, finished, drained, bulkClosed, nres, ticket>>

\* What execF's goroutine leaves in its channel when the callback returned r.
Sent(r) == IF r # Nil THEN <<r>> ELSE <<>>

\* Root package, the callback of goroutine n returns r: the error is sent,
\* the channel closed, wg.Done() called.
GoDone(t, n, r) ==
    /\ ~crashed
    /\ n \in 1..Len(gor[t])
    /\ gor[t][n].st = "running"
    /\ r \in Results(gor[t][n].fn)
    /\ gor' = [gor EXCEPT ![t][n] =
                 [fn |-> @.fn, st |-> "done", ch |-> Sent(r), closed |-> TRUE]]
    /\ wg' = [wg EXCEPT ![t] = @ - 1]
    /\ outcome' = [outcome EXCEPT ![gor[t][n].fn] = r]
    /\ finished' = Append(finished, gor[t][n].fn)
    /\ UNCHANGED <<pkg, reentry, mu, funcs, size, i, pc, f, prev, ret, sz, snap, j,
                   fErrChan, length, seen, crashed, nops, registered, nAdded,
                   calledCount, drained, bulkClosed, nres, ticket>>

\* Sub-package, one turn of the loop: wg.Add(1), and execF calls f(ctx) on
\* the caller's own thread.
CloseExec(t) ==
    /\ ~crashed
    /\ pkg = "closer"
    /\ pc[t] = "close_loop"
    /\ j[t] < Len(snap[t])
    /\ wg' = [wg EXCEPT ![t] = @ + 1]
    /\ pc' = [pc EXCEPT ![t] = "close_infunc"]
    /\ calledCount' = [calledCount EXCEPT ![snap[t][j[t] + 1]] = @ + 1]
    /\ UNCHANGED <<pkg, reentry, mu, funcs, size, i, f, prev, ret, sz, snap, j, gor,
                   fErrChan, length, seen, crashed, nops, registered, nAdded,
                   outcome, finished, drained, bulkClosed, nres, ticket>>

\* Sub-package, the callback returns r: the error is sent on the shared
\* channel (which blocks when the channel is full), the deferred wg.Done()
\* runs and execF returns to the loop.
CloseExecDone(t, r) ==
    /\ ~crashed
    /\ pc[t] = "close_infunc"
    /\ r \in Results(snap[t][j[t] + 1])
    /\ r # Nil => Len(fErrChan[t]) < length[t]
    /\ fErrChan' = [fErrChan EXCEPT ![t] = @ \o Sent(r)]
    /\ wg' = [wg EXCEPT ![t] = @ - 1]
    /\ j' = [j EXCEPT ![t] = @ + 1]
    /\ pc' = [pc EXCEPT ![t] = "close_loop"]
    /\ outcome' = [outcome EXCEPT ![snap[t][j[t] + 1]] = r]
    /\ finished' = Append(finished, snap[t][j[t] + 1])
    /\ UNCHANGED <<pkg, reentry, mu, funcs, size, i, f, prev, ret, sz, snap, gor,
                   length, seen, crashed, nops, registered, nAdded,
                   calledCount, drained, bulkClosed, nres, ticket>>

RECURSIVE DrainBackwards(_)
\* A collection that takes the channels last to first.
DrainBackwards(gs) ==
    IF gs = <<>> THEN <<>>
    ELSE DrainBackwards(Tail(gs))
         \o (IF Head(gs).ch = <<>> THEN <<>> ELSE <<Head(gs).ch[1]>>)

RECURSIVE Drain(_)
\* Root package: the messages received by ranging over each channel of
\* fErrorChanels in turn.
Drain(gs) ==
    IF gs = <<>> THEN <<>>
    ELSE (IF Head(gs).ch = <<>> THEN <<>> ELSE <<Head(gs).ch[1]>>)
         \o Drain(Tail(gs))

\* Sub-package: the messages received by `length` non-blocking receives
\* from the shared channel.
Receive(ch, n) == SubSeq(ch, 1, IF Len(ch) < n THEN Len(ch) ELSE n)

\* fErrors once the collection loop is over
Collected(t) ==
    IF pkg = "root" THEN Drain(gor[t]) ELSE Receive(fErrChan[t], length[t])

\* A Close that does not wait for its goroutines.
WaitSkipped(t) == TRUE

\* wg.Wait() has returned when the counter is zero.
WaitOver(t) == wg[t] = 0

\* A Close that leaves the index where it was.
CursorKept(n, total) == n

\* c.i = c.size: the index Close leaves behind
CursorAfterClose(n, total) == total

\* The error Close returns for the collected messages.
CloseResult(fErrors) ==
    IF Len(fErrors) > 0
    THEN Errorf("closer.Close", Join(fErrors, <<"; ">>))
    ELSE Nil

\* wg.Wait() returns; the errors are collected; c.i = c.size; the result is
\* returned and the deferred c.mu.Unlock() runs.
CloseReturn(t) ==
    /\ ~crashed
    /\ pc[t] = "close_loop"
    /\ j[t] = Len(snap[t])
    /\ WaitOver(t)
    /\ i' = CursorAfterClose(i, size)
    /\ ret' = [ret EXCEPT ![t] = CloseResult(Collected(t))]
    /\ mu' = NoThread
    /\ pc' = [pc EXCEPT ![t] = "idle"]
    /\ snap' = [snap EXCEPT ![t] = <<>>]
    /\ j' = [j EXCEPT ![t] = 0]
    /\ gor' = [gor EXCEPT ![t] = <<>>]
    /\ fErrChan' = [fErrChan EXCEPT ![t] = <<>>]
    /\ length' = [length EXCEPT ![t] = 0]
    /\ drained' = TRUE
    /\ UNCHANGED <<pkg, reentry, funcs, size, f, prev, sz, wg, seen, crashed, nops,
                   registered, nAdded, calledCount, outcome, finished,
                   bulkClosed, nres, ticket>>

----------------------------------------------------------------------------
\* The public API of both packages, called by any number of threads.

Next ==
    \E t \in Threads :
        \/ \E g \in FuncIds : AddLock(t, g)
        \/ AddAppend(t)
        \/ AddSize(t)
        \/ AddUnlock(t)
        \/ CloseOneLock(t)
        \/ CloseOneReserve(t)
        \/ CloseOneCall(t)
        \/ \E r \in Returnable : CloseOneRet(t, r)
        \/ Size(t)
        \/ CloseLock(t)
        \/ CloseGuard(t)
        \/ CloseSpawn(t)
        \/ \E n \in 1..MaxFuncs : GoCall(t, n)
        \/ \E n \in 1..MaxFuncs, r \in Returnable :
              GoDone(t, n, r)
        \/ CloseExec(t)
        \/ \E r \in Returnable : CloseExecDone(t, r)
        \/ CloseReturn(t)

Spec == Init /\ [][Next]_vars

----------------------------------------------------------------------------
\* M concurrent CloseOne calls on a registry that holds at least M unclosed
\* callbacks, and nothing else: the registry after n Add calls and c CloseOne
\* calls made one after the other, with the MaxOps - n - c remaining calls all
\* CloseOne.

InitRace ==
    \E n \in 1..MaxFuncs, c \in 0..MaxFuncs :
        /\ c <= n
        /\ n + c < MaxOps
        /\ MaxOps - n - c <= n - c
        /\ pkg \in Pkgs
        /\ mu = NoThread
        /\ funcs = [k \in 1..n |-> k]
        /\ size = n
        /\ i = c
        /\ pc = [t \in Threads |-> "idle"]
        /\ f = [t \in Threads |-> 0]
        /\ prev = [t \in Threads |-> 0]
        /\ ret = [t \in Threads |-> Nil]
        /\ sz = [t \in Threads |-> 0]
        /\ snap = [t \in Threads |-> <<>>]
        /\ j = [t \in Threads |-> 0]
        /\ gor = [t \in Threads |-> <<>>]
        /\ wg = [t \in Threads |-> 0]
        /\ fErrChan = [t \in Threads |-> <<>>]
        /\ length = [t \in Threads |-> 0]
        /\ seen = [t \in Threads |-> n]
        /\ crashed = FALSE
        /\ reentry = NoCall
        /\ nops = n + c
        /\ registered = [k \in 1..n |-> k]
        /\ nAdded = n
        /\ calledCount = [g \in FuncIds |-> IF g <= c THEN 1 ELSE 0]
        /\ outcome \in [FuncIds -> {NotRun} \cup Returnable]
        /\ \A g \in FuncIds :
              IF g <= c THEN outcome[g] \in Results(g) ELSE outcome[g] = NotRun
        /\ finished = <<>>
        /\ drained = FALSE
        /\ bulkClosed = FALSE
        /\ nres = c
        /\ ticket = [t \in Threads |-> 0]

NextRace ==
    \E t \in Threads :
        \/ CloseOneLock(t)
        \/ CloseOneReserve(t)
        \/ CloseOneCall(t)
        \/ \E r \in Returnable : CloseOneRet(t, r)

SpecRace == InitRace /\ [][NextRace]_vars

----------------------------------------------------------------------------
\* Errors the callers can tell apart.

ExhaustedClose == Errorf("closer.Close", ErrAllServicesClosed)

ExhaustedOne == Errorf("closer.CloseOne", ErrAllServicesClosed)

Reserved(t) == pc[t] \in {"one_call", "one_infunc"}

\* C1: under any interleaving of Add, CloseOne and Close calls, every
\* registered callback is invoked at most once over the registry's lifetime.
C1_AtMostOnce == \A g \in FuncIds : calledCount[g] <= 1

\* A CloseOne holds a reservation it has not called yet while a Close that
\* started later has already invoked the callback after it.
C1_Witness ==
    \E t, u \in Threads :
        /\ pc[t] = "one_call"
        /\ prev[t] = 0
        /\ pc[u] \in {"close_loop", "close_infunc"}
        /\ calledCount[1] = 0
        /\ calledCount[2] = 1

\* C2: M concurrent CloseOne calls on a registry with at least M unclosed
\* callbacks reserve M distinct slots: no call returns the Exhausted error,
\* the cursor has advanced by exactly one for every call past its guard, no
\* two calls hold the same slot, no callback is invoked twice, and there are
\* as many invocations as reservations that reached their call.
C2_DistinctSlots ==
    /\ \A t \in Threads : ret[t] # ExhaustedOne
    /\ i = nops - nAdded - Cardinality({t \in Threads : pc[t] = "one_guard"})
    /\ \A t, u \in Threads : Reserved(t) /\ Reserved(u) /\ t # u => prev[t] # prev[u]
    /\ \A g \in FuncIds : calledCount[g] <= 1
    /\ Cardinality({g \in FuncIds : calledCount[g] = 1})
         = i - Cardinality({t \in Threads : pc[t] = "one_call"})

\* Two callers run their callbacks at the same time, each its own.
C2_Witness ==
    \E t, u \in Threads :
        /\ t # u
        /\ pc[t] = "one_infunc"
        /\ pc[u] = "one_infunc"
        /\ f[t] # f[u]

\* C3 as stated: the k-th successful CloseOne reservation of the registry's
\* lifetime invokes the k-th registered callback.
C3_KthInvokesKth ==
    \A t \in Threads : pc[t] = "one_infunc" => f[t] = registered[ticket[t]]

C3_Step(t) ==
    /\ pc[t] = "one_guard" /\ pc'[t] # "one_guard" =>
          IF i < size
          THEN /\ pc'[t] = "one_call"
               /\ prev[t] = i
               /\ i' = i + 1
               /\ ~bulkClosed => ticket'[t] = prev[t] + 1
          ELSE /\ pc'[t] = "idle"
               /\ ret'[t] = ExhaustedOne
               /\ i' = i
    /\ pc[t] = "one_call" /\ pc'[t] = "one_infunc" =>
          /\ f'[t] = registered[prev[t] + 1]
          /\ calledCount' = [calledCount EXCEPT ![registered[prev[t] + 1]] = @ + 1]

\* C3, amended: every successful CloseOne reservation takes the slot at the
\* cursor and advances the cursor by one, so slots are dispensed in
\* registration order; the callback a CloseOne invokes is the one registered
\* at its slot, and it invokes no other; as long as no Close has passed its
\* guard, the k-th successful reservation takes the k-th registered callback;
\* a CloseOne returns the Exhausted error exactly when every registered slot
\* is taken.
C3_FifoOrder == [][\A t \in Threads : C3_Step(t)]_vars

\* With no Close so far, the first CloseOne has run callback 1 to its end and
\* the second reservation is running callback 2.
C3_Witness ==
    /\ ~bulkClosed
    /\ calledCount[1] = 1
    /\ outcome[1] # NotRun
    /\ \E t \in Threads : pc[t] = "one_infunc" /\ ticket[t] = 2 /\ f[t] = 2

C4_Step(t) ==
    pc[t] \in {"close_guard", "one_guard"} /\ pc'[t] # pc[t] /\ i >= size =>
        /\ ret'[t] = (IF pc[t] = "close_guard" THEN ExhaustedClose ELSE ExhaustedOne)
        /\ pc'[t] = "idle"
        /\ mu' = NoThread
        /\ UNCHANGED <<funcs, size, i, calledCount, gor, wg>>

\* C4: a Close or CloseOne whose guard finds cursor >= total returns the
\* Exhausted error in that very step, having invoked no callback and started
\* no goroutine, and leaves callbacks, total and cursor unchanged.
C4_ExhaustedGuard == [][\A t \in Threads : C4_Step(t)]_vars

\* On a registry whose only callback has been invoked, one caller got the
\* Exhausted error from Close and the other from CloseOne.
C4_Witness ==
    /\ size = 1
    /\ i = 1
    /\ calledCount[1] = 1
    /\ \E t, u \in Threads : ret[t] = ExhaustedClose /\ ret[u] = ExhaustedOne

\* The callbacks of a Close's snapshot, as registered.
Slots(t) == {snap[t][k] : k \in 1..Len(snap[t])}

ClosePassed(t) == pc[t] \in {"close_loop", "close_infunc"}

CloseReturns(t) == pc[t] = "close_loop" /\ pc'[t] = "idle"

C5_Step(t) ==
    /\ pc[t] = "close_guard" /\ pc'[t] = "close_loop" =>
          snap'[t] = [k \in 1..(size - i) |-> registered[i + k]]
    /\ CloseReturns(t) =>
          \A g \in Slots(t) : calledCount[g] = 1 /\ outcome[g] # NotRun

\* C5: a Close that passes its guard takes callbacks[cursor:total] as its
\* snapshot, and when it returns every callback of the snapshot has been
\* invoked exactly once and every one of these invocations has finished,
\* whether with nil or with an error.
C5_AllInvokedBeforeReturn == [][\A t \in Threads : C5_Step(t)]_vars

\* A Close over two callbacks has returned the failure of the first; the
\* second was invoked all the same and returned nil.
C5_Witness ==
    /\ drained
    /\ nres = 0
    /\ outcome[1] = ErrText(1)
    /\ outcome[2] = Nil
    /\ calledCount[1] = 1
    /\ calledCount[2] = 1
    /\ \E t \in Threads : ret[t] = Errorf("closer.Close", ErrText(1))

RECURSIVE FailuresOf(_)
\* The messages of the callbacks of gs that failed, in the order of gs.
FailuresOf(gs) ==
    IF gs = <<>> THEN <<>>
    ELSE (IF outcome[Head(gs)] = Nil THEN <<>> ELSE outcome[Head(gs)])
         \o FailuresOf(Tail(gs))

\* An error text without the operation tag and the separators.
Messages(e) == SelectSeq(e, LAMBDA tok : tok \notin {"closer.Close", ": ", "; "})

C6_Step(t) ==
    CloseReturns(t) =>
        /\ ret'[t] # Nil <=> \E g \in Slots(t) : outcome[g] # Nil
        /\ Messages(ret'[t]) = FailuresOf(snap[t])

\* C6: a Close that passed its guard returns an error if and only if one of
\* its callbacks failed, and the messages in the error are those of the
\* failing callbacks, each once, in registration order.
C6_AggregateError == [][\A t \in Threads : C6_Step(t)]_vars

\* Callback 2 finished before callback 1, both failed, and the error Close
\* returned lists 1 before 2.
C6_Witness ==
    /\ finished = <<2, 1>>
    /\ \E t \in Threads :
          ret[t] = Errorf("closer.Close", ErrText(1) \o <<"; ">> \o ErrText(2))

C7_Step(t) ==
    /\ CloseReturns(t) => i' = size' /\ drained'
    /\ drained' => i' = size'
    /\ drained /\ pc[t] \in {"close_guard", "one_guard"} /\ pc'[t] # pc[t] =>
          /\ ret'[t] = (IF pc[t] = "close_guard" THEN ExhaustedClose ELSE ExhaustedOne)
          /\ pc'[t] = "idle"
          /\ calledCount' = calledCount
    /\ \A g \in FuncIds :
          outcome[g] \notin {NotRun, Nil} => calledCount'[g] = calledCount[g]

\* C7: when a Close that passed its guard returns, cursor = total, whatever
\* its callbacks returned, and this stays so until an Add begins; until then
\* every Close and CloseOne guard returns the Exhausted error and invokes
\* nothing; a callback that failed is never invoked again.
C7_NoRetry == [][\A t \in Threads : C7_Step(t)]_vars

\* After a Close whose callback failed, a second Close and a CloseOne both
\* returned the Exhausted error, and the callback was invoked once.
C7_Witness ==
    /\ drained
    /\ outcome[1] = ErrText(1)
    /\ calledCount[1] = 1
    /\ \E t, u \in Threads : ret[t] = ExhaustedClose /\ ret[u] = ExhaustedOne

C8_Frame ==
    /\ size' # size =>
          \E t \in Threads : pc[t] = "add_size" /\ size' = size + 1
    /\ funcs' # funcs =>
          \E t \in Threads : pc[t] = "add_append" /\ funcs' = Append(funcs, f[t])

\* C8: the value Size returns always equals the number of Add calls that
\* have completed; each Add raises total by exactly one and appends its
\* callback at the end of the sequence, and no other step changes total or
\* the sequence.
C8_SizeIsCompletedAdds ==
    [][/\ \A t \in Threads : sz'[t] # sz[t] => sz'[t] = nAdded
       /\ C8_Frame]_vars

C9_Step(t) ==
    /\ i = size =>
          \/ i' = size'
          \/ \E u \in Threads : pc[u] = "add_size" /\ size' = size + 1 /\ i' = i
    /\ i = size /\ pc[t] \in {"close_guard", "one_guard"} /\ pc'[t] # pc[t] =>
          ret'[t] = (IF pc[t] = "close_guard" THEN ExhaustedClose ELSE ExhaustedOne)

\* C9 as stated: once cursor = total has been reached, no call of Add,
\* CloseOne or Close makes cursor < total again.
C9_NeverReopens == [][i >= size => i' >= size']_vars

\* C9, amended: once cursor = total has been reached, no CloseOne and no
\* Close makes cursor differ from total again, and every Close or CloseOne
\* whose guard runs while cursor = total returns the Exhausted error; only
\* the c.size++ of an Add makes cursor < total again.
C9_OnlyAddReopens == [][\A t \in Threads : C9_Step(t)]_vars

\* A registry emptied by Close, on which a CloseOne then got the Exhausted
\* error, has been given a second callback: cursor < total again.
C9_Witness ==
    /\ bulkClosed
    /\ calledCount[1] = 1
    /\ outcome[1] # NotRun
    /\ i = 1
    /\ size = 2
    /\ \E t \in Threads : ret[t] = ExhaustedOne

\* The callbacks of t's snapshot that are being executed.
InProgress(t) ==
    {g \in Slots(t) : calledCount[g] = 1 /\ outcome[g] = NotRun}

\* The callbacks of t's snapshot that have not been invoked yet.
NotStarted(t) == {g \in Slots(t) : calledCount[g] = 0}

\* C10: Close runs the callbacks of its snapshot as independent concurrent
\* units: while one of them is in progress, the Close can still go on to
\* start the ones it has not started, without any callback finishing first.
C10_IndependentUnits ==
    \A t \in Threads :
        ClosePassed(t) /\ InProgress(t) # {} /\ NotStarted(t) # {} =>
            ENABLED (CloseSpawn(t) \/ CloseExec(t) \/ \E n \in 1..MaxFuncs : GoCall(t, n))

\* The same for the root package alone.
C10_RootIndependentUnits == pkg = "root" => C10_IndependentUnits

\* Root package: every callback of a snapshot of three is in progress.
C10_RootAllInProgress ==
    \E t \in Threads : Len(snap[t]) = 3 /\ InProgress(t) = Slots(t)

----------------------------------------------------------------------------
\* CloseOne's result.

C11_Step(t) ==
    /\ pc[t] = "one_call" /\ pc'[t] = "one_infunc" =>
          /\ f'[t] = registered[prev[t] + 1]
          /\ calledCount' = [calledCount EXCEPT ![registered[prev[t] + 1]] = @ + 1]
    /\ pc[t] = "one_infunc" /\ pc'[t] = "idle" =>
          /\ f[t] = registered[prev[t] + 1]
          /\ calledCount'[f[t]] = 1
          /\ outcome[f[t]] = NotRun
          /\ ret'[t] = outcome'[f[t]]
          /\ ret'[t] \in Results(f[t])

\* C11: a CloseOne that reserved slot s invokes callbacks[s] exactly once and
\* returns exactly what that invocation returned: nil, or the callback's own
\* error with nothing added to it, the error of a cancelled context included.
C11_ReturnsCallbackResult == [][\A t \in Threads : C11_Step(t)]_vars

\* A CloseOne has returned context.Canceled, which the one invocation of the
\* callback it reserved had returned.
C11_Witness ==
    \E t \in Threads, g \in FuncIds :
        /\ pc[t] = "idle"
        /\ ret[t] = Canceled
        /\ outcome[g] = Canceled
        /\ calledCount[g] = 1
        /\ ~bulkClosed

----------------------------------------------------------------------------
\* The lock discipline.

\* Caller t takes a step that reads or writes c.funcs, c.i or c.size.
AccessStep(t) ==
    \/ pc[t] = "idle" /\ pc'[t] = "one_guard"
    \/ pc[t] \in {"add_append", "add_size", "one_guard", "one_call", "close_guard"}
          /\ pc'[t] # pc[t]
    \/ pc[t] = "one_call" /\ crashed'
    \/ pc[t] = "close_loop" /\ pc'[t] = "idle"

\* Some caller runs Size: a call is counted and nobody moves.
SizeStep == nops' = nops + 1 /\ pc' = pc

\* Caller t holds c.mu when it makes the access of this step.
HoldsLock(t) == mu = t \/ (pc[t] = "idle" /\ mu' = t)

\* C12: every read and write of c.funcs, c.i and c.size made by Add, CloseOne,
\* Close and Size happens while the caller holds c.mu.
C12_AllAccessUnderLock ==
    [][/\ \A t \in Threads : AccessStep(t) => HoldsLock(t)
       /\ SizeStep => \E t \in Threads : pc[t] = "idle" /\ mu = t]_vars

\* The same without Size and without CloseOne's call of c.funcs[prev].
C12_OtherAccessUnderLock ==
    [][\A t \in Threads :
          AccessStep(t) /\ pc[t] # "one_call" => HoldsLock(t)]_vars

\* A Close of caller u is in flight: it holds c.mu and has not returned.
InFlight(u) == pc[u] \in {"close_guard", "close_loop", "close_infunc"}

\* C13: while a Close is in flight, from taking the lock until it returns, no
\* call of Add, CloseOne, Close or Size made by another caller gets anywhere,
\* let alone completes, before that Close has returned.
C13_CallsWaitForClose ==
    [][\A u \in Threads : InFlight(u) => nops' = nops]_vars

\* The same for the calls that take c.mu: Add, CloseOne and Close.
C13_LockingCallsWaitForClose ==
    [][\A u \in Threads : InFlight(u) =>
          \A t \in Threads : pc[t] = "idle" => pc'[t] = "idle"]_vars

----------------------------------------------------------------------------
\* The cursor as a boundary.

\* Slot k (1-based) is reserved by a CloseOne that has not called it yet.
Pending(k) == \E t \in Threads : pc[t] = "one_call" /\ prev[t] + 1 = k

\* Slot k is in the snapshot of a Close that has passed its guard.
InSnapshot(k) == \E u \in Threads : ClosePassed(u) /\ funcs[k] \in Slots(u)

\* C14 as stated: in every reachable state every callback below the cursor
\* has been invoked and no callback at or above the cursor has; so when
\* cursor = total every registered callback has been invoked.
C14_CursorIsBoundary ==
    \A k \in 1..Len(funcs) :
        IF k <= i THEN calledCount[funcs[k]] >= 1 ELSE calledCount[funcs[k]] = 0

\* C14, amended: every callback below the cursor has been invoked or is
\* reserved by a CloseOne that has yet to invoke it; a callback at or above
\* the cursor has not been invoked, unless it is in the snapshot of a Close
\* in flight.  So when cursor = total and no Close is in flight, every
\* registered callback has been invoked or is so reserved.
C14_CursorIsReservationBoundary ==
    \A k \in 1..Len(funcs) :
        IF k <= i
        THEN calledCount[funcs[k]] >= 1 \/ Pending(k)
        ELSE calledCount[funcs[k]] = 0 \/ InSnapshot(k)

\* cursor = total while the only callback is reserved and not yet invoked,
\* and another caller has been told that all services are closed.
C14_Witness ==
    /\ size = 1
    /\ i = size
    /\ Pending(1)
    /\ calledCount[funcs[1]] = 0
    /\ \E t \in Threads : pc[t] = "idle" /\ ret[t] = ExhaustedOne

----------------------------------------------------------------------------
\* Close and the registrations made while it runs.

C15_Step(t) ==
    /\ InFlight(t) => UNCHANGED <<funcs, size, registered>>
    /\ ClosePassed(t) =>
          \A g \in FuncIds : calledCount'[g] # calledCount[g] =>
              \/ g \in Slots(t)
              \/ \E u \in Threads : pc[u] = "one_call" /\ g = registered[prev[u] + 1]
    /\ CloseReturns(t) =>
          /\ i' = i + Len(snap[t])
          /\ snap[t] = [k \in 1..Len(snap[t]) |-> registered[i + k]]
          /\ \A g \in Slots(t) : calledCount[g] = 1
          /\ \A g \in FuncIds \ Range(registered) : calledCount[g] = 0
    /\ Len(registered') > Len(registered) => i' < Len(registered')

\* C15: a Close invokes exactly the callbacks at the indices cursor..total-1
\* of its snapshot.  A registration issued while the Close is in flight takes
\* effect only after the Close has returned: its callback is not invoked by
\* that Close, is not covered by the Close's final cursor update, and lies
\* at or above the cursor, where a later CloseOne or Close finds it.
C15_SnapshotOnly == [][\A t \in Threads : C15_Step(t)]_vars

\* A callback registered behind a Close that closed the first one is being
\* run by a later CloseOne.
C15_Witness ==
    /\ bulkClosed
    /\ calledCount[1] = 1
    /\ outcome[1] # NotRun
    /\ \E t \in Threads : pc[t] = "one_infunc" /\ prev[t] = 1 /\ f[t] = 2

----------------------------------------------------------------------------
\* What a CloseOne waits for.

\* Some callback is being executed.
Executing ==
    \E u \in Threads :
        pc[u] \in {"one_infunc", "close_infunc"} \/ InProgress(u) # {}

\* Caller u holds c.mu in a section that runs no callback before it unlocks.
ShortSection(u) ==
    \/ pc[u] \in {"add_append", "add_size", "add_unlock", "one_guard"}
    \/ pc[u] = "close_guard" /\ AllClosed(i, size)

\* A CloseOne that has the lock reserves, and one that has reserved calls.
OneProceeds(t) ==
    /\ pc[t] = "one_guard" => ENABLED CloseOneReserve(t)
    /\ pc[t] = "one_call" => ENABLED CloseOneCall(t)

\* C16 as stated: while some callback is still executing, another caller's
\* CloseOne can still reserve its slot and start its callback: c.mu is free
\* for it, or held by a section that runs no callback.
C16_NeverBlocksOnCallback ==
    ~crashed /\ Executing =>
        /\ mu = NoThread \/ ShortSection(mu)
        /\ \A t \in Threads :
              /\ CanCall(t) /\ mu = NoThread => ENABLED CloseOneLock(t)
              /\ OneProceeds(t)

\* C16, amended: c.mu is never held across a callback that a CloseOne
\* executes, so such a callback keeps no caller from reserving and starting
\* its own; the only holder of c.mu that runs callbacks is a Close in
\* flight, and a CloseOne waits for that Close to return.
C16_BlocksOnlyOnClose ==
    /\ \A u \in Threads : pc[u] \in {"one_call", "one_infunc"} => mu # u
    /\ mu = NoThread \/ ShortSection(mu) \/ InFlight(mu)
    /\ ~crashed =>
          \A t \in Threads :
              /\ CanCall(t) /\ mu = NoThread => ENABLED CloseOneLock(t)
              /\ OneProceeds(t)

\* One caller's callback is executing, started by a CloseOne with an earlier
\* ticket, while another caller has reserved the next slot and is about to
\* call it.
C16_Witness ==
    \E t, u \in Threads :
        /\ pc[u] = "one_infunc"
        /\ pc[t] = "one_call"
        /\ ticket[u] < ticket[t]
        /\ mu = NoThread

----------------------------------------------------------------------------
\* The bounds of the cursor.

\* Every slot a CloseOne has reserved and not called yet lies inside c.funcs.
IndexInRange ==
    \A t \in Threads :
        pc[t] = "one_call" => prev[t] < size /\ prev[t] + 1 \in 1..Len(funcs)

\* C17 as stated: in every reachable state 0 <= cursor <= total and total is
\* the length of the callbacks sequence, so CloseOne never indexes outside
\* the sequence.
C17_Bounds ==
    /\ 0 <= i /\ i <= size
    /\ size = Len(funcs)
    /\ IndexInRange

\* C17, amended: in every reachable state 0 <= cursor <= total, and total is
\* the length of the callbacks sequence except inside Add's critical section
\* between the append and c.size++, where the sequence is one longer; so
\* CloseOne never indexes outside the sequence.
C17_BoundsOutsideAdd ==
    /\ 0 <= i /\ i <= size
    /\ Len(funcs) = (IF \E t \in Threads : pc[t] = "add_size"
                     THEN size + 1 ELSE size)
    /\ \A t \in Threads : pc[t] = "add_size" => mu = t
    /\ IndexInRange

\* A CloseOne is about to call the last counted slot while an Add has
\* appended a callback that c.size does not count yet.
C17_Witness ==
    \E t, u \in Threads :
        /\ pc[t] = "one_call"
        /\ prev[t] = size - 1
        /\ pc[u] = "add_size"
        /\ Len(funcs) = size + 1

----------------------------------------------------------------------------
\* Termination.

\* A step of the operation caller t is in the middle of, a callback's return
\* included.
Continues(t) ==
    \/ AddAppend(t)
    \/ AddSize(t)
    \/ AddUnlock(t)
    \/ CloseOneReserve(t)
    \/ CloseOneCall(t)
    \/ \E r \in Returnable : CloseOneRet(t, r)
    \/ CloseGuard(t)
    \/ CloseSpawn(t)
    \/ \E n \in 1..MaxFuncs : GoCall(t, n)
    \/ \E n \in 1..MaxFuncs, r \in Returnable : GoDone(t, n, r)
    \/ CloseExec(t)
    \/ \E r \in Returnable : CloseExecDone(t, r)
    \/ CloseReturn(t)

\* Fair scheduling: a goroutine that can take a step takes one, and every
\* callback returns.
SpecFair == Spec /\ \A t \in Threads : WF_vars(Continues(t))

\* No operation is in progress.
Quiescent == \A t \in Threads : pc[t] = "idle"

\* C18: deadlock freedom.  No callback calls back into the registry here and
\* every callback can return.  Every Add, CloseOne and Close that has begun
\* can take a further step, so that under fair scheduling it returns; and
\* c.mu is free whenever no operation is in progress.
C18_DeadlockFree ==
    /\ \A t \in Threads : pc[t] # "idle" => \E u \in Threads : ENABLED Continues(u)
    /\ Quiescent => mu = NoThread

\* The same as long as the process has not panicked.
C18_DeadlockFreeUnlessPanicked == crashed \/ C18_DeadlockFree

\* Under fair scheduling every call that has begun returns, unless the
\* process panics.
C18_ReturnsUnlessPanicked ==
    \A t \in Threads : (pc[t] # "idle") ~> (pc[t] = "idle" \/ crashed)

\* Under fair scheduling every call that has begun returns.
C18_Returns == \A t \in Threads : (pc[t] # "idle") ~> (pc[t] = "idle")

----------------------------------------------------------------------------
\* Callbacks that call back into the registry.
\*
\* Caller Outer uses the registry; a callback it runs may make one call of
\* Add, CloseOne or Close on the same registry and wait for it to return.
\* That call is run under the name Inner: it is made on the goroutine the
\* callback runs on, which for c.mu makes no difference, since a sync.Mutex
\* does not know its holder.

Outer == 1
Inner == 2

\* Callback g has been invoked on behalf of caller t and has not returned.
Running(t, g) ==
    \/ pc[t] = "one_infunc" /\ f[t] = g
    \/ ClosePassed(t) /\ g \in InProgress(t)

registryVars == <<pkg, mu, funcs, size, i, pc, f, prev, ret, sz, closeLocals,
                  seen, crashed, nops, histVars>>

\* Callback g, running for Outer, calls cl.Add, cl.CloseOne or cl.Close.
CallbackCalls(g, op) ==
    /\ ~crashed
    /\ reentry = NoCall
    /\ nops < MaxOps
    /\ pc[Inner] = "idle"
    /\ Running(Outer, g)
    /\ reentry' = [op |-> op, cb |-> g, at |-> nops]
    /\ UNCHANGED registryVars

\* The call the callback made is operation op, and it has not begun.
NestedBegins(op) == reentry.op = op /\ nops = reentry.at

\* The call the callback made has returned; the callback goes on.
CallbackResumes ==
    /\ reentry # NoCall
    /\ nops > reentry.at
    /\ pc[Inner] = "idle"
    /\ reentry' = NoCall
    /\ UNCHANGED registryVars

\* Callback g is waiting for the call it made.
Waits(g) == reentry.cb = g

\* A step of the call a callback made.
NestedStep ==
    \/ NestedBegins("add") /\ \E g \in FuncIds : AddLock(Inner, g)
    \/ NestedBegins("one") /\ CloseOneLock(Inner)
    \/ NestedBegins("close") /\ CloseLock(Inner)
    \/ Continues(Inner)
    \/ CallbackResumes

NextReentrant ==
    \/ \E g \in FuncIds : AddLock(Outer, g)
    \/ AddAppend(Outer)
    \/ AddSize(Outer)
    \/ AddUnlock(Outer)
    \/ CloseOneLock(Outer)
    \/ CloseOneReserve(Outer)
    \/ CloseOneCall(Outer)
    \/ \E r \in Returnable : CloseOneRet(Outer, r) /\ ~Waits(f[Outer])
    \/ CloseLock(Outer)
    \/ CloseGuard(Outer)
    \/ CloseSpawn(Outer)
    \/ \E n \in 1..MaxFuncs : GoCall(Outer, n)
    \/ \E n \in 1..MaxFuncs, r \in Returnable :
          GoDone(Outer, n, r) /\ ~Waits(gor[Outer][n].fn)
    \/ CloseExec(Outer)
    \/ \E r \in Returnable :
          CloseExecDone(Outer, r) /\ ~Waits(snap[Outer][j[Outer] + 1])
    \/ CloseReturn(Outer)
    \/ \E g \in FuncIds, op \in {"add", "one", "close"} : CallbackCalls(g, op)
    \/ NestedStep

\* The call a callback made is scheduled fairly, and the callbacks it runs
\* return.
SpecReentrant == Init /\ [][NextReentrant]_vars /\ WF_vars(NestedStep)

\* A callback run by Outer's CloseOne waits for the call it made.
WaitingInOne ==
    reentry # NoCall /\ pc[Outer] = "one_infunc" /\ f[Outer] = reentry.cb

\* A callback run by Outer's Close waits for the call it made.
WaitingInClose ==
    reentry # NoCall /\ ClosePassed(Outer) /\ reentry.cb \in Slots(Outer)

\* C19: a callback run by CloseOne runs with c.mu released: a call of Add,
\* CloseOne or Close it makes on the same registry can always go on, and
\* returns.  A callback run by Close runs while Close holds c.mu: a call of
\* Add, CloseOne or Close it makes never gets past c.mu.Lock(), the callback
\* never returns, and that Close never returns.
C19_ReentrancyAsymmetry ==
    /\ [](WaitingInOne => mu # Outer /\ ENABLED NestedStep)
    /\ WaitingInOne ~> (reentry = NoCall)
    /\ [](WaitingInClose =>
            /\ mu = Outer
            /\ nops = reentry.at
            /\ ~ENABLED NestedStep)
    /\ [][WaitingInClose => WaitingInClose']_vars

\* Outer's Close has run every other callback of its snapshot and waits for
\* the one that called CloseOne on the registry.
C19_Witness ==
    /\ WaitingInClose
    /\ reentry.op = "one"
    /\ Len(snap[Outer]) = 2
    /\ InProgress(Outer) = {reentry.cb}
    /\ NotStarted(Outer) = {}

\* The Close that a callback of Outer's CloseOne made has returned, having
\* run the callback registered behind it, and the callback has gone on.
C19_NestedCloseReturned ==
    /\ pc[Outer] = "one_infunc"
    /\ reentry = NoCall
    /\ pc[Inner] = "idle"
    /\ ret[Inner] \in {Nil} \cup {Errorf("closer.Close", e) : e \in Returnable}
    /\ calledCount[2] = 1
    /\ outcome[2] # NotRun
    /\ i = 2

----------------------------------------------------------------------------
\* The sub-package's reset, which its benchmarks call between two rounds.

\* c.mu.Lock()
ResetLock(t) ==
    /\ CanCall(t)
    /\ Unlocked
    /\ mu' = t
    /\ pc' = [pc EXCEPT ![t] = "reset_set"]
    /\ seen' = [seen EXCEPT ![t] = size]
    /\ nops' = nops + 1
    /\ UNCHANGED <<pkg, reentry, funcs, size, i, f, prev, ret, sz, closeLocals,
                   crashed, histVars>>

\* A reset that leaves the index where it is.
RewoundNot(n) == n

\* c.i = 0: the index after reset, whatever it was
Rewound(n) == 0

\* c.i = 0; c.mu.Unlock()
ResetSet(t) ==
    /\ ~crashed
    /\ pc[t] = "reset_set"
    /\ i' = Rewound(i)
    /\ mu' = NoThread
    /\ pc' = [pc EXCEPT ![t] = "idle"]
    /\ UNCHANGED <<pkg, reentry, funcs, size, f, prev, ret, sz, closeLocals,
                   seen, crashed, nops, histVars>>

InitReset == Init /\ pkg = "closer"

NextReset ==
    \E t \in Threads :
        \/ \E g \in FuncIds : AddLock(t, g)
        \/ AddAppend(t)
        \/ AddSize(t)
        \/ AddUnlock(t)
        \/ CloseOneLock(t)
        \/ CloseOneReserve(t)
        \/ CloseOneCall(t)
        \/ \E r \in Returnable : CloseOneRet(t, r)
        \/ CloseLock(t)
        \/ CloseGuard(t)
        \/ CloseExec(t)
        \/ \E r \in Returnable : CloseExecDone(t, r)
        \/ CloseReturn(t)
        \/ ResetLock(t)
        \/ ResetSet(t)

SpecReset == InitReset /\ [][NextReset]_vars

C20_Step(t) ==
    /\ pc[t] = "reset_set" /\ pc'[t] = "idle" =>
          /\ mu = t
          /\ i' = 0
          /\ UNCHANGED <<funcs, size>>
    /\ pc[t] = "close_guard" /\ pc'[t] # pc[t] /\ i = 0 /\ size > 0 =>
          /\ pc'[t] = "close_loop"
          /\ snap'[t] = funcs
          /\ Len(funcs) = size
    /\ CloseReturns(t) =>
          /\ \A g \in Slots(t) : calledCount[g] >= 1 /\ outcome[g] # NotRun
          /\ i' = size
    /\ pc[t] = "one_guard" /\ pc'[t] # pc[t] /\ i = 0 /\ size > 0 =>
          /\ pc'[t] = "one_call"
          /\ prev[t] = 0
          /\ i' = 1
    /\ pc[t] = "one_call" /\ pc'[t] = "one_infunc" =>
          /\ f'[t] = funcs[prev[t] + 1]
          /\ calledCount'[f'[t]] = calledCount[f'[t]] + 1

\* C20: reset sets the cursor to 0 holding c.mu and leaves c.funcs and c.size
\* as they are.  On a registry that is not empty, the Close whose guard runs
\* after it passes and invokes every registered callback, already closed or
\* not, and the CloseOne whose guard runs after it invokes callback 0.
C20_ResetRewinds == [][\A t \in Threads : C20_Step(t)]_vars

\* A reset took the cursor back from total to 0, and the Close after it is
\* running the first callback for the second time.
C20_Witness ==
    \E t \in Threads :
        /\ pc[t] = "close_infunc"
        /\ i = 0
        /\ size = 1
        /\ calledCount[1] = 2
        /\ outcome[1] # NotRun

\* Refuted under SpecReset: no callback is invoked more than once.
C20_StillAtMostOnce == \A g \in FuncIds : calledCount[g] <= 1

\* Refuted under SpecReset: the cursor never goes back.
C20_StillMonotonic == [][i' >= i]_vars

====
